---- MODULE Spec2Model ----
(***************************************************************************)
(* Model of wialon_geocercas.py: the cached remote session and the retrying *)
(* remote call (wialon_call, _ensure_sid, _login_with_token), the geometry  *)
(* predicates, the geofence normalisation of geofences_of_resource and the  *)
(* unit/geofence crossing of cross_units_local.                             *)
(***************************************************************************)
EXTENDS Integers, Sequences, FiniteSets, TLC

VARIABLES
    WIALON_TOKEN,   \* configured secret (module constant read from the environment)
    SESSION_SID,    \* process-wide cached credential, None when absent
    SESSION_TS,     \* process-wide timestamp of the cached credential
    now,            \* time.time()
    ticks,          \* number of clock advances so far
    nextEid,        \* number of the next session id the remote login hands out
    procs,          \* worker threads that serve requests
    pc,             \* per thread: position inside wialon_call / _ensure_sid
    phase,          \* per thread: 1 = first data request pending, 2 = the retry
    sid,            \* per thread: local variable sid
    calls,          \* per thread: wialon_call invocations started
    nreq,           \* per thread, current call: data requests issued
    r1,             \* per thread, current call: first data response
    ret,            \* per thread, current call: outcome (returned body or raised error)
    inval,          \* per thread, current call: the call cleared the cache
    didLogin,       \* per thread, current _ensure_sid: a login exchange was performed
    seenSid,        \* per thread, current _ensure_sid: cached credential when the call began
    seenAge,        \* per thread, current _ensure_sid: age of the cache when it was tested
    sentBad,        \* a data request went out without a credential
    sidBy,          \* thread that wrote SESSION_SID last
    tsBy,           \* thread that wrote SESSION_TS last
    sidTs,          \* timestamp stored by the login that stored SESSION_SID
    budget,         \* wialon_call invocations each thread serves
    gRing0,         \* geometry: the ring as first given
    gRing,          \* geometry: the ring in its current vertex order
    gPoint,         \* geometry: the point tested
    gInside0,       \* geometry: _point_in_polygon of the point and gRing0
    gInside,        \* geometry: _point_in_polygon of the point and gRing
    gFlipped,       \* geometry: gRing runs in the direction opposite to gRing0
    gpc,            \* geometry: "new" before the first test, then "tested"
    zRaw,           \* zones: the remote answer of resource/get_zone_data
    zOut,           \* zones: the "geofences" list of the response
    zpc,            \* zones: "new" before geofences_of_resource ran, then "done"
    xItems,         \* crossing: the unit items the remote lists
    xResources,     \* crossing: the resource ids the remote lists
    xZones,         \* crossing: per resource id, the remote answer of get_zone_data
    xMaxUnits,      \* crossing: the max_units query parameter, <<>> when not given
    xResult,        \* crossing: the "result" mapping of the response
    xTests,         \* crossing: the geometry tests carried out
    xpc             \* crossing: "new" before cross_units_local ran, then "done"

sessionVars == <<WIALON_TOKEN, SESSION_SID, SESSION_TS, now, ticks, nextEid, procs, pc,
                 phase, sid, calls, nreq, r1, ret, inval, didLogin, seenSid, seenAge,
                 sentBad, sidBy, tsBy, sidTs, budget>>

geoVars == <<gRing0, gRing, gPoint, gInside0, gInside, gFlipped, gpc>>

zoneVars == <<zRaw, zOut, zpc>>

crossVars == <<xItems, xResources, xZones, xMaxUnits, xResult, xTests, xpc>>

vars == <<sessionVars, geoVars, zoneVars, crossVars>>

-----------------------------------------------------------------------------
(* Bounds of the model *)

MaxTicks == 2
MaxLogins == 2
MaxCallsSeq == 2
MaxCallsPar == 1
MaxRingLen == 3
MaxPayload == 1
MaxUnits == 2
MaxZones == 1
Precision == 3

(* Program constants *)

FreshWindow == 240
MetersPerDegree == 111000

\* worker threads of the server's thread pool
Threads == {1, 2}

-----------------------------------------------------------------------------
(* Values *)

None == [kind |-> "None", n |-> 0]
EmptyStr == [kind |-> "str", n |-> 0]
TokenStr == [kind |-> "token", n |-> 0]
Eid(k) == [kind |-> "eid", n |-> k]

\* Python truthiness of an Optional[str]
Truthy(v) == v # None /\ v # EmptyStr

\* if isinstance(data, dict) and data.get("error") in (1, 2, 3, 4, 5, 8)
SessionErrors == {1, 2, 3, 4, 5, 8}

NoBody == [kind |-> "none", error |-> 0]
HttpFail == [kind |-> "http", error |-> 0]
Timeout == [kind |-> "timeout", error |-> 0]
ListBody == [kind |-> "list", error |-> 0]
DictBody(c) == [kind |-> "dict", error |-> c]

\* error codes the remote side answers with in the model: none (0), the two ends
\* of the session-error set, and one code outside it
RemoteErrorCodes == {0, 1, 7, 8}

\* what the remote side can answer to a data request
DataResponses == {HttpFail, Timeout, ListBody} \cup {DictBody(c) : c \in RemoteErrorCodes}

IsSessionError(data) == data.kind = "dict" /\ data.error \in SessionErrors

AgeFreshInclusive(ts, t) == (t - ts) <= FreshWindow

\* ... and (time.time() - SESSION_TS) < 240
AgeFresh(ts, t) == (t - ts) < FreshWindow

\* an exception that leaves wialon_call: "ConfigError", "LoginHttp", "LoginRejected",
\* "LoginTimeout" from _ensure_sid, "Http", "Timeout" from the data request
Raised(kind) == [kind |-> kind, error |-> 0]

-----------------------------------------------------------------------------
(* Initial state: module import *)

InitSession(P, b) ==
    /\ WIALON_TOKEN \in {EmptyStr, TokenStr}
    /\ SESSION_SID = None
    /\ SESSION_TS = 0
    /\ now = FreshWindow
    /\ ticks = 0
    /\ nextEid = 1
    /\ procs = P
    /\ pc = [p \in Threads |-> "idle"]
    /\ phase = [p \in Threads |-> 1]
    /\ sid = [p \in Threads |-> None]
    /\ calls = [p \in Threads |-> 0]
    /\ nreq = [p \in Threads |-> 0]
    /\ r1 = [p \in Threads |-> NoBody]
    /\ ret = [p \in Threads |-> NoBody]
    /\ inval = [p \in Threads |-> FALSE]
    /\ didLogin = [p \in Threads |-> FALSE]
    /\ seenSid = [p \in Threads |-> None]
    /\ seenAge = [p \in Threads |-> 0]
    /\ sentBad = FALSE
    /\ sidBy = 0
    /\ tsBy = 0
    /\ sidTs = 0
    /\ budget = b

SessionIdle == InitSession({}, 0) /\ WIALON_TOKEN = TokenStr

-----------------------------------------------------------------------------
(* The clock *)

TickSteps == {1, FreshWindow - 1}

Tick ==
    /\ ticks < MaxTicks
    /\ \E d \in TickSteps : now' = now + d
    /\ ticks' = ticks + 1
    /\ UNCHANGED <<WIALON_TOKEN, SESSION_SID, SESSION_TS, nextEid, procs, pc, phase, sid,
                   calls, nreq, r1, ret, inval, didLogin, seenSid, seenAge, sentBad,
                   sidBy, tsBy, sidTs, budget, geoVars, zoneVars, crossVars>>

-----------------------------------------------------------------------------
(* wialon_call and _ensure_sid, one step per access to the shared cache or   *)
(* to the network                                                            *)

\* what no step of a request changes: the configuration, and the state of the
\* other components
config == <<WIALON_TOKEN, procs, budget, geoVars, zoneVars, crossVars>>
clock == <<now, ticks>>
cache == <<SESSION_SID, SESSION_TS, sidBy, tsBy, sidTs>>
callGhosts == <<calls, nreq, r1, inval, sentBad>>
ensureGhosts == <<didLogin, seenSid, seenAge>>

\* a request handler enters wialon_call
StartCall(p) ==
    /\ p \in procs
    /\ pc[p] = "idle"
    /\ calls[p] < budget
    /\ pc' = [pc EXCEPT ![p] = "ensure"]
    /\ phase' = [phase EXCEPT ![p] = 1]
    /\ sid' = [sid EXCEPT ![p] = None]
    /\ calls' = [calls EXCEPT ![p] = @ + 1]
    /\ nreq' = [nreq EXCEPT ![p] = 0]
    /\ r1' = [r1 EXCEPT ![p] = NoBody]
    /\ ret' = [ret EXCEPT ![p] = NoBody]
    /\ inval' = [inval EXCEPT ![p] = FALSE]
    /\ didLogin' = [didLogin EXCEPT ![p] = FALSE]
    /\ seenSid' = [seenSid EXCEPT ![p] = None]
    /\ seenAge' = [seenAge EXCEPT ![p] = 0]
    /\ UNCHANGED <<config, clock, cache, nextEid, sentBad>>

\* an exception leaves wialon_call
Raise(p, kind) ==
    /\ pc' = [pc EXCEPT ![p] = "idle"]
    /\ ret' = [ret EXCEPT ![p] = Raised(kind)]

\* _ensure_sid: if not WIALON_TOKEN: raise
ensure_sid_token(p) ==
    /\ pc[p] = "ensure"
    /\ IF Truthy(WIALON_TOKEN)
         THEN pc' = [pc EXCEPT ![p] = "chk"] /\ ret' = ret
         ELSE Raise(p, "ConfigError")
    /\ didLogin' = [didLogin EXCEPT ![p] = FALSE]
    /\ seenSid' = [seenSid EXCEPT ![p] = None]
    /\ seenAge' = [seenAge EXCEPT ![p] = 0]
    /\ UNCHANGED <<config, clock, cache, nextEid, phase, sid, callGhosts>>

\* _ensure_sid: the left operand of "SESSION_SID and ..."
ensure_sid_cached(p) ==
    /\ pc[p] = "chk"
    /\ seenSid' = [seenSid EXCEPT ![p] = SESSION_SID]
    /\ pc' = [pc EXCEPT ![p] = IF Truthy(SESSION_SID) THEN "age" ELSE "login"]
    /\ UNCHANGED <<config, clock, cache, nextEid, phase, sid, callGhosts, ret,
                   didLogin, seenAge>>

\* _ensure_sid: the right operand, (time.time() - SESSION_TS) < 240
ensure_sid_age(p) ==
    /\ pc[p] = "age"
    /\ seenAge' = [seenAge EXCEPT ![p] = now - SESSION_TS]
    /\ pc' = [pc EXCEPT ![p] = IF AgeFresh(SESSION_TS, now) THEN "hit" ELSE "login"]
    /\ UNCHANGED <<config, clock, cache, nextEid, phase, sid, callGhosts, ret,
                   didLogin, seenSid>>

\* _ensure_sid: return SESSION_SID (the global is read again)
ensure_sid_hit(p) ==
    /\ pc[p] = "hit"
    /\ sid' = [sid EXCEPT ![p] = SESSION_SID]
    /\ pc' = [pc EXCEPT ![p] = "req"]
    /\ UNCHANGED <<config, clock, cache, nextEid, phase, callGhosts, ret, ensureGhosts>>

LoginAnswers == {"eid", "http", "timeout", "rejected", "wrong_params"}

\* _login_with_token and the except clause of _ensure_sid
login_with_token(p) ==
    /\ pc[p] = "login"
    /\ didLogin' = [didLogin EXCEPT ![p] = TRUE]
    /\ \E a \in LoginAnswers :
         CASE a = "eid" ->
                /\ nextEid <= MaxLogins
                /\ sid' = [sid EXCEPT ![p] = Eid(nextEid)]
                /\ nextEid' = nextEid + 1
                /\ pc' = [pc EXCEPT ![p] = "store_sid"]
                /\ ret' = ret
           [] a = "http" ->
                Raise(p, "LoginHttp") /\ UNCHANGED <<sid, nextEid>>
           [] a = "timeout" ->
                Raise(p, "LoginTimeout") /\ UNCHANGED <<sid, nextEid>>
           [] a = "rejected" ->
                Raise(p, "LoginRejected") /\ UNCHANGED <<sid, nextEid>>
           [] a = "wrong_params" ->
                /\ pc' = [pc EXCEPT ![p] = "token_sid"]
                /\ UNCHANGED <<sid, nextEid, ret>>
    /\ UNCHANGED <<config, clock, cache, phase, callGhosts, seenSid, seenAge>>

\* SESSION_SID = sid
ensure_sid_store_sid(p) ==
    /\ pc[p] = "store_sid"
    /\ SESSION_SID' = sid[p]
    /\ sidBy' = p
    /\ pc' = [pc EXCEPT ![p] = "store_ts"]
    /\ UNCHANGED <<config, clock, SESSION_TS, tsBy, sidTs, nextEid, phase, sid,
                   callGhosts, ret, ensureGhosts>>

\* SESSION_TS = time.time(); return sid
ensure_sid_store_ts(p) ==
    /\ pc[p] = "store_ts"
    /\ SESSION_TS' = now
    /\ tsBy' = p
    /\ sidTs' = IF sidBy = p THEN now ELSE sidTs
    /\ pc' = [pc EXCEPT ![p] = "req"]
    /\ UNCHANGED <<config, clock, SESSION_SID, sidBy, nextEid, phase, sid,
                   callGhosts, ret, ensureGhosts>>

\* SESSION_SID = WIALON_TOKEN
ensure_sid_token_sid(p) ==
    /\ pc[p] = "token_sid"
    /\ SESSION_SID' = WIALON_TOKEN
    /\ sidBy' = p
    /\ pc' = [pc EXCEPT ![p] = "token_ts"]
    /\ UNCHANGED <<config, clock, SESSION_TS, tsBy, sidTs, nextEid, phase, sid,
                   callGhosts, ret, ensureGhosts>>

\* SESSION_TS = time.time()
ensure_sid_token_ts(p) ==
    /\ pc[p] = "token_ts"
    /\ SESSION_TS' = now
    /\ tsBy' = p
    /\ sidTs' = IF sidBy = p THEN now ELSE sidTs
    /\ pc' = [pc EXCEPT ![p] = "hit"]
    /\ UNCHANGED <<config, clock, SESSION_SID, sidBy, nextEid, phase, sid,
                   callGhosts, ret, ensureGhosts>>

\* where wialon_call goes after a data response: "raise", "retry" or "return"
AfterResponseLoop(ph, data) ==
    IF data.kind \in {"http", "timeout"} THEN "raise"
    ELSE IF IsSessionError(data) THEN "retry"
    ELSE "return"

AfterResponse(ph, data) ==
    IF data.kind \in {"http", "timeout"} THEN "raise"
    ELSE IF ph = 1 /\ IsSessionError(data) THEN "retry"
    ELSE "return"

\* requests.get(..., "sid": sid) and the handling of its response
wialon_call_request(p) ==
    /\ pc[p] = "req"
    /\ nreq' = [nreq EXCEPT ![p] = @ + 1]
    /\ sentBad' = (sentBad \/ ~Truthy(sid[p]))
    /\ \E data \in DataResponses :
         /\ r1' = IF phase[p] = 1 THEN [r1 EXCEPT ![p] = data] ELSE r1
         /\ CASE AfterResponse(phase[p], data) = "raise" ->
                   Raise(p, IF data = HttpFail THEN "Http" ELSE "Timeout")
              [] AfterResponse(phase[p], data) = "retry" ->
                   pc' = [pc EXCEPT ![p] = "clear"] /\ ret' = ret
              [] AfterResponse(phase[p], data) = "return" ->
                   pc' = [pc EXCEPT ![p] = "idle"] /\ ret' = [ret EXCEPT ![p] = data]
    /\ didLogin' = [didLogin EXCEPT ![p] = FALSE]
    /\ seenSid' = [seenSid EXCEPT ![p] = None]
    /\ seenAge' = [seenAge EXCEPT ![p] = 0]
    /\ UNCHANGED <<config, clock, cache, nextEid, phase, sid, calls, inval>>

\* SESSION_SID = None; sid = _ensure_sid()
wialon_call_clear(p) ==
    /\ pc[p] = "clear"
    /\ SESSION_SID' = None
    /\ sidBy' = p
    /\ inval' = [inval EXCEPT ![p] = TRUE]
    /\ phase' = [phase EXCEPT ![p] = 2]
    /\ pc' = [pc EXCEPT ![p] = "ensure"]
    /\ UNCHANGED <<config, clock, SESSION_TS, tsBy, sidTs, nextEid, sid, calls, nreq,
                   r1, ret, sentBad, ensureGhosts>>

Step(p) ==
    \/ ensure_sid_token(p)
    \/ ensure_sid_cached(p)
    \/ ensure_sid_age(p)
    \/ ensure_sid_hit(p)
    \/ login_with_token(p)
    \/ ensure_sid_store_sid(p)
    \/ ensure_sid_store_ts(p)
    \/ ensure_sid_token_sid(p)
    \/ ensure_sid_token_ts(p)
    \/ wialon_call_request(p)
    \/ wialon_call_clear(p)

-----------------------------------------------------------------------------
(* Binary floating point: Python floats are IEEE binary64, every operation    *)
(* rounded to the nearest value with a 53-bit significand, ties to even. The  *)
(* model keeps the rounding rule and narrows the significand to Precision     *)
(* bits; the exponent is unbounded (no overflow or underflow occurs in the    *)
(* ranges modelled). A value is a fraction <<n, d>>, d > 0.                   *)

Pow2(k) == 2 ^ k
Abs(x) == IF x < 0 THEN -x ELSE x
Exponents == -12 .. 12

RECURSIVE Reduce(_, _)
\* the fraction m / 2^k in lowest terms
Reduce(m, k) ==
    IF k > 0 /\ m % 2 = 0 THEN Reduce(m \div 2, k - 1) ELSE <<m, Pow2(k)>>

\* the float nearest to n / d
Round(n, d) ==
    IF n = 0 THEN <<0, 1>>
    ELSE
      LET a == Abs(n)
          InBinade(e) ==
              IF e >= 0
                THEN /\ Pow2(Precision - 1) * d * Pow2(e) <= a
                     /\ a < Pow2(Precision) * d * Pow2(e)
                ELSE /\ Pow2(Precision - 1) * d <= a * Pow2(-e)
                     /\ a * Pow2(-e) < Pow2(Precision) * d
          e == CHOOSE x \in Exponents : InBinade(x)
          N == IF e >= 0 THEN a ELSE a * Pow2(-e)
          D == IF e >= 0 THEN d * Pow2(e) ELSE d
          q == N \div D
          r == N % D
          m == IF 2 * r > D \/ (2 * r = D /\ q % 2 = 1) THEN q + 1 ELSE q
          s == IF n < 0 THEN -1 ELSE 1
      IN  IF e >= 0 THEN <<s * m * Pow2(e), 1>> ELSE Reduce(s * m, -e)

Float(k) == Round(k, 1)
FSub(a, b) == Round(a[1] * b[2] - b[1] * a[2], a[2] * b[2])
FAdd(a, b) == Round(a[1] * b[2] + b[1] * a[2], a[2] * b[2])
FMul(a, b) == Round(a[1] * b[1], a[2] * b[2])
FDiv(a, b) ==
    IF b[1] > 0 THEN Round(a[1] * b[2], a[2] * b[1])
    ELSE Round(-(a[1] * b[2]), a[2] * (-b[1]))
FLess(a, b) == a[1] * b[2] < b[1] * a[2]
FEqual(a, b) == a[1] * b[2] = b[1] * a[2]

-----------------------------------------------------------------------------
(* _point_in_polygon *)

\* 1e-12 of "(yj - yi) or 1e-12", narrowed to the model's range
Epsilon == <<1, Pow2(30)>>
OrEpsilon(d) == IF d[1] = 0 THEN Epsilon ELSE d

\* (xj - xi) * (lat - yi) / ((yj - yi) or 1e-12) + xi
Interpolate(lat, vi, vj) ==
    FAdd(FDiv(FMul(FSub(Float(vj.lon), Float(vi.lon)), FSub(Float(lat), Float(vi.lat))),
              OrEpsilon(FSub(Float(vj.lat), Float(vi.lat)))),
         Float(vi.lon))

\* ((yi > lat) != (yj > lat)) and (lon < ...): "and" evaluates its right operand
\* only when the left one is true
Intersect(lat, lon, vi, vj) ==
    /\ (vi.lat > lat) # (vj.lat > lat)
    /\ FLess(Float(lon), Interpolate(lat, vi, vj))

PreviousNoWrap(i, n) == IF i = 1 THEN 1 ELSE i - 1

\* j = (i - 1) % n, for indices 1..n
Previous(i, n) == IF i = 1 THEN n ELSE i - 1

RECURSIVE PolygonLoop(_, _, _, _, _)
\* for i in range(n): ...; if intersect: inside = not inside
PolygonLoop(lat, lon, ring, i, inside) ==
    IF i > Len(ring) THEN inside
    ELSE PolygonLoop(lat, lon, ring, i + 1,
                     IF Intersect(lat, lon, ring[i], ring[Previous(i, Len(ring))])
                       THEN ~inside ELSE inside)

point_in_polygon(lat, lon, ring) ==
    IF Len(ring) < 3 THEN FALSE ELSE PolygonLoop(lat, lon, ring, 1, FALSE)

-----------------------------------------------------------------------------
(* The polygon test on a ring and on the same ring listed differently *)

Vertex(la, lo) == [lat |-> la, lon |-> lo]
Coords == {0, 3, 5}
RingVertices == {Vertex(0, 0), Vertex(0, 3), Vertex(3, 3), Vertex(3, 0), Vertex(5, 5)}
Rings == UNION {[1..n -> RingVertices] : n \in 2..MaxRingLen}
Points == {Vertex(la, lo) : la \in Coords, lo \in Coords}

Rotated(ring) == Tail(ring) \o <<Head(ring)>>
Reversed(ring) == [i \in 1..Len(ring) |-> ring[Len(ring) + 1 - i]]

InitRing ==
    /\ gRing0 \in Rings
    /\ gRing = gRing0
    /\ gPoint \in Points
    /\ gInside0 = FALSE
    /\ gInside = FALSE
    /\ gFlipped = FALSE
    /\ gpc = "new"

GeoIdle ==
    /\ gRing0 = <<>>
    /\ gRing = <<>>
    /\ gPoint = Vertex(0, 0)
    /\ gInside0 = FALSE
    /\ gInside = FALSE
    /\ gFlipped = FALSE
    /\ gpc = "idle"

TestPoint ==
    /\ gpc = "new"
    /\ gInside0' = point_in_polygon(gPoint.lat, gPoint.lon, gRing0)
    /\ gInside' = gInside0'
    /\ gpc' = "tested"
    /\ UNCHANGED <<gRing0, gRing, gPoint, gFlipped, sessionVars, zoneVars, crossVars>>

RotateRing ==
    /\ gpc = "tested"
    /\ gRing' = Rotated(gRing)
    /\ gInside' = point_in_polygon(gPoint.lat, gPoint.lon, gRing')
    /\ UNCHANGED <<gRing0, gPoint, gInside0, gFlipped, gpc, sessionVars, zoneVars, crossVars>>

ReverseRing ==
    /\ gpc = "tested"
    /\ gRing' = Reversed(gRing)
    /\ gFlipped' = ~gFlipped
    /\ gInside' = point_in_polygon(gPoint.lat, gPoint.lon, gRing')
    /\ UNCHANGED <<gRing0, gPoint, gInside0, gpc, sessionVars, zoneVars, crossVars>>

-----------------------------------------------------------------------------
(* geofences_of_resource: the geometry of one raw zone. An optional value is  *)
(* a sequence of length 0 or 1; a missing list is the empty list and a        *)
(* missing number is 0, which Python's truth test treats as it treats None.   *)

LegacyPoint(form, x, y) == [form |-> form, x |-> x, y |-> y]

\* item["points"]: jp["points"] if truthy, else z["p"] with x, y swapped into lat, lon
NormalizePoints(z) ==
    IF z.jp_points # <<>>
      THEN [i \in 1..Len(z.jp_points) |-> Vertex(z.jp_points[i].lat, z.jp_points[i].lon)]
    ELSE IF z.p # <<>>
      THEN [i \in 1..Len(z.p) |-> Vertex(z.p[i].y, z.p[i].x)]
    ELSE <<>>

NormalizeCircleLegacyFirst(z) ==
    IF z.ct # <<>> /\ z.r # 0
      THEN [center |-> <<Vertex(z.ct[1].y, z.ct[1].x)>>, radius |-> z.r]
    ELSE IF z.jp_center # <<>> /\ z.jp_radius # 0
      THEN [center |-> <<Vertex(z.jp_center[1].lat, z.jp_center[1].lon)>>,
            radius |-> z.jp_radius]
    ELSE [center |-> <<>>, radius |-> 0]

\* item["center"], item["radius"]: jp["center"], jp["radius"] if both truthy, else
\* z["ct"], z["r"] if both truthy, with x, y swapped into lat, lon
NormalizeCircle(z) ==
    IF z.jp_center # <<>> /\ z.jp_radius # 0
      THEN [center |-> <<Vertex(z.jp_center[1].lat, z.jp_center[1].lon)>>,
            radius |-> z.jp_radius]
    ELSE IF z.ct # <<>> /\ z.r # 0
      THEN [center |-> <<Vertex(z.ct[1].y, z.ct[1].x)>>, radius |-> z.r]
    ELSE [center |-> <<>>, radius |-> 0]

\* one element of the "geofences" list
Normalize(z) ==
    [id |-> IF z.id # 0 THEN z.id ELSE z.i,
     points |-> NormalizePoints(z),
     center |-> NormalizeCircle(z).center,
     radius |-> NormalizeCircle(z).radius]

\* geofences_of_resource(resource_id)["geofences"] for a remote answer
Geofences(raw) == [i \in 1..Len(raw) |-> Normalize(raw[i])]

\* g.get("points")
HasPoints(g) == g.points # <<>>
\* g.get("center") and g.get("radius")
HasCircle(g) == g.center # <<>> /\ g.radius # 0

NestedRing == <<Vertex(0, 0), Vertex(0, 4), Vertex(4, 4), Vertex(4, 0)>>
LegacyRingDict == <<LegacyPoint("dict", 10, 20), LegacyPoint("dict", 12, 20),
                    LegacyPoint("dict", 12, 24)>>
LegacyRingPair == <<LegacyPoint("pair", 10, 20)>>
NestedCenter == Vertex(6, 6)
LegacyCenter == [x |-> 10, y |-> 20]

RawZones ==
    [id : {0, 7}, i : {9},
     jp_points : {<<>>, NestedRing},
     p : {<<>>, LegacyRingDict, LegacyRingPair},
     jp_center : {<<>>, <<NestedCenter>>},
     jp_radius : {0, 150},
     ct : {<<>>, <<LegacyCenter>>},
     r : {0, 300}]

InitZones ==
    /\ zRaw \in UNION {[1..n -> RawZones] : n \in 0..MaxPayload}
    /\ zOut = <<>>
    /\ zpc = "new"

ZonesIdle ==
    /\ zRaw = <<>>
    /\ zOut = <<>>
    /\ zpc = "idle"

\* GET /wialon/resources/{resource_id}/geofences
geofences_of_resource ==
    /\ zpc = "new"
    /\ zOut' = Geofences(zRaw)
    /\ zpc' = "done"
    /\ UNCHANGED <<zRaw, sessionVars, geoVars, crossVars>>

-----------------------------------------------------------------------------
(* cross_units_local *)

\* list_units()["units"]: lat = pos.get("y"), lon = pos.get("x")
ListUnits(items) ==
    [i \in 1..Len(items) |->
        [id |-> items[i].id,
         lat |-> IF items[i].pos = <<>> THEN <<>> ELSE <<items[i].pos[1].y>>,
         lon |-> IF items[i].pos = <<>> THEN <<>> ELSE <<items[i].pos[1].x>>]]

\* _dist_m squared, in km: each difference in degrees times 111_000 m
dist_km2(lat1, lon1, lat2, lon2) ==
    LET dy == (lat2 - lat1) * (MetersPerDegree \div 1000)
        dx == (lon2 - lon1) * (MetersPerDegree \div 1000)
    IN  dx * dx + dy * dy

\* d <= float(g["radius"]), the radius of the model being in km
WithinRadius(lat, lon, g) ==
    dist_km2(lat, lon, g.center[1].lat, g.center[1].lon) <= g.radius * g.radius

\* if g.get("points"): if _point_in_polygon(...)
PolygonHit(u, g) == HasPoints(g) /\ point_in_polygon(u.lat[1], u.lon[1], g.points)

CircleTestedElse(u, g) == ~HasPoints(g) /\ HasCircle(g)

\* the second "if" of the loop body is reached unless the polygon test hit
CircleTested(u, g) == ~PolygonHit(u, g) /\ HasCircle(g)

CircleHit(u, g) == CircleTested(u, g) /\ WithinRadius(u.lat[1], u.lon[1], g)

\* if lat is None or lon is None: continue
Located(u) == u.lat # <<>> /\ u.lon # <<>>

RECURSIVE HitsFrom(_, _, _)
\* hits: the ids of the zones hit, in listing order
HitsFrom(u, geos, k) ==
    IF k > Len(geos) THEN <<>>
    ELSE (IF PolygonHit(u, geos[k]) \/ CircleHit(u, geos[k]) THEN <<geos[k].id>> ELSE <<>>)
         \o HitsFrom(u, geos, k + 1)

Hits(u, geos) == HitsFrom(u, geos, 1)

RecordedAlways(hits) == TRUE

\* if hits: result[str(rid)][str(u["id"])] = hits
Recorded(hits) == hits # <<>>

\* the units the crossing considers: cross_units_local has no parameter, so a
\* max_units query parameter is not read
UnitsConsidered(units, cap) == units

Range(f) == {f[i] : i \in DOMAIN f}

CrossResult(units, resources, zones) ==
    [rid \in Range(resources) |->
        LET geos == Geofences(zones[rid])
            rec == {u \in Range(units) : Located(u) /\ Recorded(Hits(u, geos))}
        IN  [uid \in {u.id : u \in rec} |->
                Hits(CHOOSE u \in rec : u.id = uid, geos)]]

Test(rid, uid, zid, kind) == [rid |-> rid, uid |-> uid, zid |-> zid, test |-> kind]

CrossTests(units, resources, zones) ==
    UNION {
      UNION {
        UNION {
          (IF HasPoints(g) THEN {Test(rid, u.id, g.id, "polygon")} ELSE {})
          \cup (IF CircleTested(u, g) THEN {Test(rid, u.id, g.id, "circle")} ELSE {})
          : g \in Range(Geofences(zones[rid]))}
        : u \in {v \in Range(units) : Located(v)}}
      : rid \in Range(resources)}

Position(x, y) == [x |-> x, y |-> y]
UnitPositions == {<<>>, <<Position(2, 2)>>, <<Position(6, 6)>>, <<Position(0, 8)>>}
UnitId(i) == 100 + i
ResourceIds == <<1, 2>>
ZoneId(rid, k) == 10 * rid + k

RawZone(kind, zid) ==
    [id |-> zid, i |-> 0,
     jp_points |-> IF kind \in {"polygon", "both"} THEN NestedRing ELSE <<>>,
     p |-> <<>>,
     jp_center |-> IF kind \in {"circle", "both"} THEN <<NestedCenter>> ELSE <<>>,
     jp_radius |-> IF kind \in {"circle", "both"} THEN 150 ELSE 0,
     ct |-> <<>>,
     r |-> 0]

ZoneKinds == {"polygon", "circle", "both", "none"}
ZoneLists(rid) ==
    UNION {{[k \in 1..n |-> RawZone(kinds[k], ZoneId(rid, k))] : kinds \in [1..n -> ZoneKinds]}
           : n \in 0..MaxZones}

InitCross ==
    /\ xItems \in UNION {{[i \in 1..n |-> [id |-> UnitId(i), pos |-> ps[i]]]
                           : ps \in [1..n -> UnitPositions]} : n \in 0..MaxUnits}
    /\ xResources = ResourceIds
    /\ xZones \in {[rid \in Range(ResourceIds) |-> IF rid = 1 THEN a ELSE b]
                    : a \in ZoneLists(1), b \in ZoneLists(2)}
    /\ xMaxUnits \in {<<>>} \cup {<<n>> : n \in 0..MaxUnits}
    /\ xResult = <<>>
    /\ xTests = {}
    /\ xpc = "new"

CrossIdle ==
    /\ xItems = <<>>
    /\ xResources = <<>>
    /\ xZones = <<>>
    /\ xMaxUnits = <<>>
    /\ xResult = <<>>
    /\ xTests = {}
    /\ xpc = "idle"

\* GET /wialon/units/in-geofences/local
cross_units_local ==
    /\ xpc = "new"
    /\ LET units == UnitsConsidered(ListUnits(xItems), xMaxUnits)
       IN  /\ xResult' = CrossResult(units, xResources, xZones)
           /\ xTests' = CrossTests(units, xResources, xZones)
    /\ xpc' = "done"
    /\ UNCHANGED <<xItems, xResources, xZones, xMaxUnits, sessionVars, geoVars, zoneVars>>

-----------------------------------------------------------------------------
(* Specifications *)

\* the remote-call layer under concurrent requests
Init == InitSession(Threads, MaxCallsPar) /\ GeoIdle /\ ZonesIdle /\ CrossIdle

Next ==
    \/ Tick
    \/ \E p \in Threads : StartCall(p)
    \/ \E p \in Threads : Step(p)

Spec == Init /\ [][Next]_vars

\* one worker thread: requests served one after another
InitSeq == InitSession({1}, MaxCallsSeq) /\ GeoIdle /\ ZonesIdle /\ CrossIdle

SpecSeq == InitSeq /\ [][Next]_vars

\* the polygon test applied to a ring and to its rotations and reversals
InitGeo == InitRing /\ SessionIdle /\ ZonesIdle /\ CrossIdle

NextGeo ==
    \/ TestPoint
    \/ RotateRing
    \/ ReverseRing

SpecGeo == InitGeo /\ [][NextGeo]_vars

\* the normalisation of one remote zone answer
InitZ == InitZones /\ SessionIdle /\ GeoIdle /\ CrossIdle

NextZones == geofences_of_resource

SpecZones == InitZ /\ [][NextZones]_vars

\* one crossing request
InitX == InitCross /\ SessionIdle /\ GeoIdle /\ ZonesIdle

NextCross == cross_units_local

SpecCross == InitX /\ [][NextCross]_vars

\* the thread pool runs every started handler to its end; requests.get returns
\* or raises within its timeout
SpecSeqFair ==
    InitSeq /\ [][Next]_vars /\ \A p \in Threads : WF_vars(Step(p))

-----------------------------------------------------------------------------
(* Properties of the remote-call layer *)

Finished(p) == pc[p] = "idle" /\ calls[p] > 0
Quiescent == \A p \in Threads : pc[p] = "idle"
ExpiryCodes == {1, 2, 3, 4, 5, 8}
ExpiredFirst(p) == r1[p].kind = "dict" /\ r1[p].error \in ExpiryCodes
LoginFailures == {"LoginHttp", "LoginRejected", "LoginTimeout"}

\* C1 as stated: whenever the first data response carries a code of {1,2,3,4,5,8},
\* the cache is cleared and the data request is issued a second time
C1_RetryAlwaysReissued ==
    \A p \in Threads :
        (Finished(p) /\ ExpiredFirst(p)) => (inval[p] /\ nreq[p] = 2)

C1_CallShape ==
    \A p \in Threads :
        /\ nreq[p] <= 2
        /\ (nreq[p] = 2) => (ExpiredFirst(p) /\ inval[p])
        /\ (pc[p] = "req" /\ phase[p] = 2) => (inval[p] /\ didLogin[p] /\ nreq[p] = 1)
        /\ (Finished(p) /\ ExpiredFirst(p)) =>
              /\ inval[p]
              /\ IF ret[p].kind \in LoginFailures THEN nreq[p] = 1 ELSE nreq[p] = 2
        /\ (Finished(p) /\ ~ExpiredFirst(p)) => (~inval[p] /\ nreq[p] <= 1)

\* C1 (amended): a first data response with a code of {1,2,3,4,5,8} clears the
\* cache and a credential is requested anew by a login exchange; when that
\* exchange yields a credential the data request is issued exactly once more,
\* and when it fails the call fails with the login error without a second data
\* request; the second response is never retried, so a call issues at most two
\* data requests, and every started call ends.
C1_OneRetry ==
    /\ []C1_CallShape
    /\ \A p \in Threads : (pc[p] # "idle") ~> (pc[p] = "idle")

\* a call whose retry was answered with a session error again, and which ended
C1_Witness ==
    \E p \in Threads : Finished(p) /\ nreq[p] = 2 /\ IsSessionError(ret[p])

\* C2: when _ensure_sid returns, a cached credential tested less than 240 s after
\* its timestamp is the value returned and no login exchange took place; one
\* tested 240 s or more after it is returned only after a new login exchange.
C2_FreshWindow ==
    \A p \in Threads :
        (pc[p] = "req" /\ Truthy(seenSid[p])) =>
            IF seenAge[p] < 240
              THEN ~didLogin[p] /\ sid[p] = seenSid[p]
              ELSE didLogin[p]

\* _ensure_sid returned with a cache that was exactly 240 s old
C2_Witness ==
    \E p \in Threads :
        pc[p] = "req" /\ Truthy(seenSid[p]) /\ seenAge[p] = 240 /\ didLogin[p]

\* C3: wialon_call never returns to its caller an error envelope whose code is
\* outside {1,2,3,4,5,8}; such a response makes the call fail.
C3_ErrorEnvelopeRaises ==
    \A p \in Threads :
        Finished(p) =>
            ~(ret[p].kind = "dict" /\ ret[p].error # 0 /\ ret[p].error \notin ExpiryCodes)

\* C7: _ensure_sid never hands an absent or empty credential to wialon_call, and
\* no data request leaves without a credential.
C7_CredentialNeverAbsent ==
    /\ \A p \in Threads : pc[p] = "req" => Truthy(sid[p])
    /\ ~sentBad

\* C8: once every request has finished, the cached timestamp is the one stored by
\* the login that stored the cached credential, never a later one of another login.
C8_CachePairsOneLogin ==
    (Quiescent /\ Truthy(SESSION_SID)) => ~(sidBy # tsBy /\ SESSION_TS > sidTs)

-----------------------------------------------------------------------------
(* Properties of the polygon test *)

\* the interpolated longitude of an edge, without rounding
ExactCrossing(lat, vi, vj) ==
    <<(vj.lon - vi.lon) * (lat - vi.lat) + vi.lon * (vj.lat - vi.lat), vj.lat - vi.lat>>

SameValue(f, x) ==
    IF x[2] > 0 THEN FEqual(f, x) ELSE FEqual(f, <<-x[1], -x[2]>>)

\* every interpolation the test of the ring performs, in either direction of the
\* ring, is free of rounding error
RoundingFree(pt, ring) ==
    \A i \in 1..Len(ring) :
        LET vi == ring[i]
            vj == ring[Previous(i, Len(ring))]
        IN  ((vi.lat > pt.lat) # (vj.lat > pt.lat)) =>
                /\ SameValue(Interpolate(pt.lat, vi, vj), ExactCrossing(pt.lat, vi, vj))
                /\ SameValue(Interpolate(pt.lat, vj, vi), ExactCrossing(pt.lat, vj, vi))

\* C9 as stated: the result is the same for the ring, for each of its cyclic
\* rotations and for the ring in reversed vertex order
C9_RotationAndReversal ==
    gpc = "tested" => gInside = gInside0

\* C9 (amended): the result is the same for every cyclic rotation of the ring;
\* for the reversed ring (and its rotations) it is the same whenever the edge
\* interpolations are free of rounding error.
C9_Rotation ==
    gpc = "tested" =>
        /\ ~gFlipped => gInside = gInside0
        /\ (gFlipped /\ RoundingFree(gPoint, gRing0)) => gInside = gInside0

\* a point inside a ring of three or more vertices, tested again on a rotation
C9_Witness ==
    /\ gpc = "tested"
    /\ ~gFlipped
    /\ gRing # gRing0
    /\ Len(gRing) >= 3
    /\ gInside

C9_WitnessReversed ==
    /\ gpc = "tested"
    /\ gFlipped
    /\ RoundingFree(gPoint, gRing0)
    /\ gInside

-----------------------------------------------------------------------------
(* Properties of the zone normalisation *)

SuppliesPolygon(z) == z.jp_points # <<>> \/ z.p # <<>>
SuppliesNestedCircle(z) == z.jp_center # <<>> /\ z.jp_radius # 0
SuppliesLegacyCircle(z) == z.ct # <<>> /\ z.r # 0
SuppliesCircle(z) == SuppliesNestedCircle(z) \/ SuppliesLegacyCircle(z)

\* C6 as stated: whatever the payload, a normalised zone carries at most one of
\* polygon geometry and circle geometry
C6_AtMostOneGeometry ==
    zpc = "done" =>
        \A i \in DOMAIN zOut : ~(HasPoints(zOut[i]) /\ HasCircle(zOut[i]))

\* C6 (amended): the two geometry kinds are resolved independently, the nested
\* encoding taking precedence within each kind: the zone carries polygon
\* geometry exactly when the payload supplies a nested or a legacy point list,
\* and circle geometry exactly when it supplies a nested center and radius or a
\* legacy ct and r; it carries both exactly when the payload supplies both kinds.
C6_GeometryPerKind ==
    zpc = "done" =>
        /\ Len(zOut) = Len(zRaw)
        /\ \A i \in DOMAIN zOut :
              LET z == zRaw[i]
                  g == zOut[i]
              IN  /\ HasPoints(g) <=> SuppliesPolygon(z)
                  /\ HasCircle(g) <=> SuppliesCircle(z)
                  /\ z.jp_points # <<>> => g.points = z.jp_points
                  /\ SuppliesNestedCircle(z) =>
                        (g.center = z.jp_center /\ g.radius = z.jp_radius)
                  /\ (HasPoints(g) /\ HasCircle(g)) <=>
                        (SuppliesPolygon(z) /\ SuppliesCircle(z))

\* a payload with both encodings of both kinds has been normalised
C6_Witness ==
    /\ zpc = "done"
    /\ \E i \in DOMAIN zOut :
          /\ zRaw[i].jp_points # <<>> /\ zRaw[i].p # <<>>
          /\ SuppliesNestedCircle(zRaw[i]) /\ SuppliesLegacyCircle(zRaw[i])
          /\ HasPoints(zOut[i]) /\ HasCircle(zOut[i])

-----------------------------------------------------------------------------
(* Properties of the crossing *)

CrossUnits == ListUnits(xItems)
IsHit(rid, u, g) ==
    /\ u.id \in DOMAIN xResult[rid]
    /\ g.id \in Range(xResult[rid][u.id])

\* C4 as stated: every resource key of the result maps to at least one unit, and
\* every unit entry to a non-empty list of zone ids
C4_SparseBothLevels ==
    xpc = "done" =>
        \A rid \in DOMAIN xResult :
            /\ DOMAIN xResult[rid] # {}
            /\ \A uid \in DOMAIN xResult[rid] : xResult[rid][uid] # <<>>

\* C4 (amended): the result is sparse at the unit level only: every unit entry
\* present maps to a non-empty list of zone ids of that resource, while every
\* listed resource appears as a key, with an empty mapping when no unit matched
\* any of its zones.
C4_SparseUnits ==
    xpc = "done" =>
        /\ DOMAIN xResult = Range(xResources)
        /\ \A rid \in DOMAIN xResult :
              \A uid \in DOMAIN xResult[rid] :
                  /\ xResult[rid][uid] # <<>>
                  /\ uid \in {u.id : u \in {v \in Range(CrossUnits) : Located(v)}}
                  /\ Range(xResult[rid][uid]) \subseteq
                        {ZoneId(rid, k) : k \in 1..Len(xZones[rid])}

\* one resource with a matching unit beside one without any
C4_Witness ==
    /\ xpc = "done"
    /\ \E rid \in DOMAIN xResult : DOMAIN xResult[rid] = {}
    /\ \E rid \in DOMAIN xResult : DOMAIN xResult[rid] # {}

\* C5 as stated: a zone with polygon geometry is a hit exactly when the polygon
\* test is true, and the circle test is never applied to it
C5_OneTestPerZone ==
    xpc = "done" =>
        \A rid \in Range(xResources) :
            \A u \in {v \in Range(CrossUnits) : Located(v)} :
                \A g \in Range(Geofences(xZones[rid])) :
                    HasPoints(g) =>
                        /\ IsHit(rid, u, g) <=>
                              point_in_polygon(u.lat[1], u.lon[1], g.points)
                        /\ Test(rid, u.id, g.id, "circle") \notin xTests

\* C5 (amended): a zone with polygon geometry is tested as a polygon first and
\* is a hit when that test is true; the circle test is applied to every zone
\* with circle geometry whose polygon test did not hit (no polygon geometry, or
\* a polygon test that returned false), so a zone carrying both geometries may
\* be tested as both, and a zone is a hit exactly when one of its tests is true.
C5_PolygonThenCircle ==
    xpc = "done" =>
        \A rid \in Range(xResources) :
            \A u \in {v \in Range(CrossUnits) : Located(v)} :
                \A g \in Range(Geofences(xZones[rid])) :
                    LET pin == HasPoints(g) /\ point_in_polygon(u.lat[1], u.lon[1], g.points)
                        cin == HasCircle(g) /\ WithinRadius(u.lat[1], u.lon[1], g)
                    IN  /\ Test(rid, u.id, g.id, "polygon") \in xTests <=> HasPoints(g)
                        /\ Test(rid, u.id, g.id, "circle") \in xTests <=>
                              (HasCircle(g) /\ ~pin)
                        /\ IsHit(rid, u, g) <=> (pin \/ cin)

\* a zone carrying both geometries missed as a polygon and hit as a circle
C5_Witness ==
    /\ xpc = "done"
    /\ \E t \in xTests :
          /\ t.test = "circle"
          /\ Test(t.rid, t.uid, t.zid, "polygon") \in xTests
          /\ t.uid \in DOMAIN xResult[t.rid]
          /\ t.zid \in Range(xResult[t.rid][t.uid])

\* C10: with max_units = N given, no unit listed after the first N is tested or
\* appears in the result.
C10_MaxUnitsTruncates ==
    (xpc = "done" /\ xMaxUnits # <<>>) =>
        \A i \in 1..Len(xItems) :
            i > xMaxUnits[1] =>
                /\ \A rid \in DOMAIN xResult : xItems[i].id \notin DOMAIN xResult[rid]
                /\ \A t \in xTests : t.uid # xItems[i].id

====
